---- MODULE Spec2Model ----
(***************************************************************************)
(* Model of decklists.py: decklist lines -> parsed entries -> aggregated   *)
(* entries -> lookup identifiers -> batched lookup -> image download.       *)
(*                                                                         *)
(* Text is modelled as sequences of one-character strings, so that the     *)
(* regular expressions, the key formatting and the filename formatting of  *)
(* the program are computed character by character.                        *)
(***************************************************************************)
EXTENDS Integers, Sequences, FiniteSets, TLC

(***************************************************************************)
(* Characters                                                              *)
(***************************************************************************)
UpperChars == <<"A","B","C","D","E","F","G","H","I","J","K","L","M",
                "N","O","P","Q","R","S","T","U","V","W","X","Y","Z">>
LowerChars == <<"a","b","c","d","e","f","g","h","i","j","k","l","m",
                "n","o","p","q","r","s","t","u","v","w","x","y","z">>
DigitChars == <<"0","1","2","3","4","5","6","7","8","9">>

Range(f) == {f[i] : i \in DOMAIN f}

Digits  == Range(DigitChars)
Uppers  == Range(UpperChars)
Letters == Range(UpperChars) \cup Range(LowerChars)
Spaces  == {" ", "\t"}

IsDigit(c) == c \in Digits
IsAlpha(c) == c \in Letters
IsSpace(c) == c \in Spaces
\* \w of the regular expressions: letters, digits and the underscore
IsWord(c)  == IsAlpha(c) \/ IsDigit(c) \/ c = "_"

\* str.lower() on one character
LowerOf ==
    [c \in Uppers |-> LowerChars[CHOOSE i \in DOMAIN UpperChars : UpperChars[i] = c]]

LowerChar(c) == IF c \in Uppers THEN LowerOf[c] ELSE c

\* str.lower()
Lower(s) == [i \in DOMAIN s |-> LowerChar(s[i])]

\* None of Python: a value no text is equal to
None == <<"None">>

\* truthiness of an optional text: None and "" are false
Truthy(s) == s # None /\ s # <<>>

ValueOf == [c \in Digits |-> (CHOOSE i \in DOMAIN DigitChars : DigitChars[i] = c) - 1]

DigitValue(c) == ValueOf[c]

\* int(text) for a non-empty text of digits
RECURSIVE StrToInt(_)
StrToInt(s) ==
    IF s = <<>> THEN 0
    ELSE 10 * StrToInt(SubSeq(s, 1, Len(s) - 1)) + DigitValue(s[Len(s)])

\* str(n) for n >= 0
RECURSIVE IntToStr(_)
IntToStr(n) ==
    IF n < 10 THEN <<DigitChars[n + 1]>>
    ELSE IntToStr(n \div 10) \o <<DigitChars[(n % 10) + 1]>>

\* str.strip()
RECURSIVE LStrip(_)
LStrip(s) == IF s # <<>> /\ IsSpace(s[1]) THEN LStrip(Tail(s)) ELSE s

RECURSIVE RStrip(_)
RStrip(s) ==
    IF s # <<>> /\ IsSpace(s[Len(s)]) THEN RStrip(SubSeq(s, 1, Len(s) - 1)) ELSE s

Strip(s) == RStrip(LStrip(s))

\* str.startswith(p)
StartsWith(s, p) == Len(s) >= Len(p) /\ SubSeq(s, 1, Len(p)) = p

\* s[i:] with a 1-based i
From(s, i) == SubSeq(s, i, Len(s))

\* number of leading characters of s that satisfy a class
RECURSIVE SpaceRun(_)
SpaceRun(s) == IF s # <<>> /\ IsSpace(s[1]) THEN 1 + SpaceRun(Tail(s)) ELSE 0

RECURSIVE DigitRun(_)
DigitRun(s) == IF s # <<>> /\ IsDigit(s[1]) THEN 1 + DigitRun(Tail(s)) ELSE 0

(***************************************************************************)
(* sanitize_filename                                                       *)
(***************************************************************************)
FilenamePunct == {"-", "(", ")", "[", "]", ".", "&", ",", "'", "!", "+"}

RECURSIVE CollapseSpaces(_)
CollapseSpaces(s) ==
    IF s = <<>> THEN <<>>
    ELSE IF IsSpace(s[1])
         THEN <<" ">> \o CollapseSpaces(From(s, SpaceRun(s) + 1))
         ELSE <<s[1]>> \o CollapseSpaces(Tail(s))

sanitize_filename(name) ==
    CollapseSpaces(SelectSeq(Strip(name),
        LAMBDA c : IsWord(c) \/ IsSpace(c) \/ c \in FilenamePunct))

(***************************************************************************)
(* parse_deck_line                                                         *)
(***************************************************************************)
SectionPrefixes ==
    { <<"#">>, <<"/","/">>,
      <<"S","i","d","e","b","o","a","r","d">>,
      <<"C","o","m","m","a","n","d","e","r">>,
      <<"C","o","m","p","a","n","i","o","n">>,
      <<"M","a","y","b","e","b","o","a","r","d">> }

\* re.sub(r"\*F\*|\(Foil\)", "", s, flags=re.IGNORECASE)
RECURSIVE RemoveFoil(_)
RemoveFoil(s) ==
    IF s = <<>> THEN <<>>
    ELSE IF Len(s) >= 3 /\ Lower(SubSeq(s, 1, 3)) = <<"*","f","*">>
         THEN RemoveFoil(From(s, 4))
    ELSE IF Len(s) >= 6 /\ Lower(SubSeq(s, 1, 6)) = <<"(","f","o","i","l",")">>
         THEN RemoveFoil(From(s, 7))
    ELSE <<s[1]>> \o RemoveFoil(Tail(s))

\* re.match(r"^(\d+)\s*x?\s+(.*)$", s, flags=re.IGNORECASE):
\* [matched, qty, rest], rest being group(2).strip()
MatchQty(s) ==
    LET d     == DigitRun(s)
        after == From(s, d + 1)
        k     == SpaceRun(after)
        atX   == From(after, k + 1)
        withX == /\ atX # <<>>
                 /\ LowerChar(atX[1]) = "x"
                 /\ Len(atX) >= 2
                 /\ IsSpace(atX[2])
    IN  IF d = 0 THEN [matched |-> FALSE, qty |-> 1, rest |-> s]
        ELSE IF withX
             THEN [matched |-> TRUE, qty |-> StrToInt(SubSeq(s, 1, d)),
                   rest |-> Strip(Tail(atX))]
        ELSE IF k >= 1
             THEN [matched |-> TRUE, qty |-> StrToInt(SubSeq(s, 1, d)),
                   rest |-> Strip(atX)]
        ELSE [matched |-> FALSE, qty |-> 1, rest |-> s]

\* does r"\(([A-Za-z0-9]{2,5})\)" match at position i of s with n characters
SetAt(s, i, n) ==
    /\ i + n + 1 <= Len(s)
    /\ s[i] = "("
    /\ \A j \in (i + 1)..(i + n) : IsAlpha(s[j]) \/ IsDigit(s[j])
    /\ s[i + n + 1] = ")"

\* re.search(r"\(([A-Za-z0-9]{2,5})\)", rest): [found, start, len], leftmost
SearchSet(s) ==
    LET hits == {i \in 1..Len(s) : \E n \in 2..5 : SetAt(s, i, n)}
    IN  IF hits = {} THEN [found |-> FALSE, start |-> 0, len |-> 0]
        ELSE LET i == CHOOSE h \in hits : \A g \in hits : h <= g
             IN  [found |-> TRUE, start |-> i,
                  len |-> CHOOSE n \in 2..5 : SetAt(s, i, n)]

\* does r"\b(\d+[a-z]?)\b\s*$" (IGNORECASE) match s from position i
NumAt(s, i) ==
    LET t == From(s, i)
        d == DigitRun(t)
        u == From(t, d + 1)
        v == IF u # <<>> /\ IsAlpha(u[1]) THEN Tail(u) ELSE u
    IN  /\ i = 1 \/ ~IsWord(s[i - 1])
        /\ d >= 1
        /\ v = <<>> \/ (IsSpace(v[1]) /\ Strip(v) = <<>>)

\* re.search(r"\b(\d+[a-z]?)\b\s*$", s, flags=re.IGNORECASE): [found, start], leftmost
SearchNum(s) ==
    LET hits == {i \in 1..Len(s) : NumAt(s, i)}
    IN  IF hits = {} THEN [found |-> FALSE, start |-> 0]
        ELSE [found |-> TRUE, start |-> CHOOSE h \in hits : \A g \in hits : h <= g]

\* re.sub(r"\s*//\s*", " // ", name)
RECURSIVE NormalizeSlashes(_)
NormalizeSlashes(s) ==
    IF s = <<>> THEN <<>>
    ELSE LET a == SpaceRun(s)
             t == From(s, a + 1)
         IN  IF StartsWith(t, <<"/","/">>)
             THEN <<" ","/","/"," ">>
                  \o NormalizeSlashes(From(t, 3 + SpaceRun(From(t, 3))))
             ELSE <<s[1]>> \o NormalizeSlashes(Tail(s))

\* the None that parse_deck_line returns for a line that is no card
NoEntry == [qty |-> 0, name |-> None, set |-> None, collector_number |-> None]

\* parse_deck_line: a card entry, or None
parse_deck_line(line) ==
    LET s0   == Strip(line)
        s    == Strip(RemoveFoil(s0))
        mq   == MatchQty(s)
        rest == IF mq.matched THEN mq.rest ELSE s
        ms   == SearchSet(rest)
        set_code == IF ms.found
                    THEN Lower(SubSeq(rest, ms.start + 1, ms.start + ms.len))
                    ELSE None
        rest_wo_set ==
            IF ms.found
            THEN Strip(SubSeq(rest, 1, ms.start - 1) \o From(rest, ms.start + ms.len + 2))
            ELSE rest
        mn   == SearchNum(rest_wo_set)
        collector_number ==
            IF mn.found THEN RStrip(From(rest_wo_set, mn.start)) ELSE None
        name0 == IF mn.found THEN Strip(SubSeq(rest_wo_set, 1, mn.start - 1))
                 ELSE Strip(rest_wo_set)
        name == NormalizeSlashes(name0)
    IN  IF s0 = <<>> THEN NoEntry
        ELSE IF \E p \in SectionPrefixes : StartsWith(s0, p) THEN NoEntry
        ELSE IF name = <<>> THEN NoEntry
        ELSE [qty |-> mq.qty, name |-> name, set |-> set_code,
              collector_number |-> collector_number]

(***************************************************************************)
(* group_by_identifier and the aggregation loop of main                    *)
(***************************************************************************)
\* key(e) of group_by_identifier: the formatted text the entries are grouped by
key(e) ==
    IF Truthy(e.set) /\ Truthy(e.collector_number)
    THEN <<"s","e","t",":">> \o e.set \o <<"#","c","n",":">> \o e.collector_number
    ELSE IF Truthy(e.set)
    THEN <<"n","a","m","e",":">> \o Lower(e.name) \o <<"#","s","e","t",":">> \o e.set
    ELSE <<"n","a","m","e",":">> \o Lower(e.name)

\* the keys of the dict built by setdefault, in insertion order: a key is
\* inserted by the first entry that has it
GroupKeys(entries) ==
    LET keys  == [i \in DOMAIN entries |-> key(entries[i])]
        first == SelectSeq([i \in DOMAIN entries |-> i],
                           LAMBDA i : \A j \in 1..(i - 1) : keys[j] # keys[i])
    IN  [g \in DOMAIN first |-> keys[first[g]]]

\* group_by_identifier: the groups in insertion order, each the list of its entries
group_by_identifier(entries) ==
    LET keys == GroupKeys(entries)
    IN  [g \in DOMAIN keys |->
            [key |-> keys[g],
             items |-> SelectSeq(entries, LAMBDA e : key(e) = keys[g])]]

\* sum(i["qty"] for i in items)
RECURSIVE SumQty(_)
SumQty(items) == IF items = <<>> THEN 0 ELSE items[1].qty + SumQty(Tail(items))

\* the aggregation loop: one exemplar per group, with the group's quantity
Aggregate(entries, unique_mode) ==
    LET grouped == group_by_identifier(entries)
    IN  [g \in DOMAIN grouped |->
            [grouped[g].items[1] EXCEPT
                !.qty = IF unique_mode THEN 1 ELSE SumQty(grouped[g].items)]]

(***************************************************************************)
(* build_identifiers                                                       *)
(***************************************************************************)
Identifier(e) ==
    IF Truthy(e.set) /\ Truthy(e.collector_number)
    THEN [set |-> e.set, collector_number |-> e.collector_number]
    ELSE IF Truthy(e.set)
    THEN [name |-> e.name, set |-> e.set]
    ELSE [name |-> e.name]

build_identifiers(entries) == [i \in DOMAIN entries |-> Identifier(entries[i])]

(***************************************************************************)
(* Image selection and file names                                          *)
(***************************************************************************)
\* a mapping size -> URL that is absent or empty is the empty function
NoUris == <<>>

HasSize(uris, size) == uris # NoUris /\ size \in DOMAIN uris

\* the (url, suffix) pair of one face; face.get("name", f"face{idx+1}")
FacePair(face, idx, size) ==
    LET face_name == IF face.name = None
                     THEN <<"f","a","c","e">> \o IntToStr(idx)
                     ELSE face.name
    IN  [url |-> face.image_uris[size],
         suffix |-> <<"-">> \o sanitize_filename(face_name)]

\* pick_image_uris, were a face without the size skipped instead of raising
pick_image_uris_SkipsFace(card, size) ==
    IF card.image_uris # NoUris
    THEN IF ~HasSize(card.image_uris, size)
         THEN [raised |-> TRUE, pairs |-> <<>>, face |-> 0]
         ELSE [raised |-> FALSE, face |-> 0,
               pairs |-> <<[url |-> card.image_uris[size], suffix |-> <<>>]>>]
    ELSE IF card.card_faces # <<>>
    THEN LET faces == card.card_faces
             good  == SelectSeq([i \in DOMAIN faces |-> i],
                                LAMBDA i : HasSize(faces[i].image_uris, size))
         IN  [raised |-> FALSE, face |-> 0,
              pairs |-> [j \in DOMAIN good |-> FacePair(faces[good[j]], good[j], size)]]
    ELSE [raised |-> TRUE, pairs |-> <<>>, face |-> 0]

\* pick_image_uris: the pairs, or the KeyError it raises
pick_image_uris(card, size) ==
    IF card.image_uris # NoUris
    THEN IF ~HasSize(card.image_uris, size)
         THEN [raised |-> TRUE, pairs |-> <<>>, face |-> 0]
         ELSE [raised |-> FALSE, face |-> 0,
               pairs |-> <<[url |-> card.image_uris[size], suffix |-> <<>>]>>]
    ELSE IF card.card_faces # <<>>
    THEN LET faces == card.card_faces
             bad   == {i \in DOMAIN faces : ~HasSize(faces[i].image_uris, size)}
         IN  IF bad # {}
             THEN [raised |-> TRUE, pairs |-> <<>>,
                   face |-> CHOOSE i \in bad : \A j \in bad : i <= j]
             ELSE [raised |-> FALSE, face |-> 0,
                   pairs |-> [i \in DOMAIN faces |-> FacePair(faces[i], i, size)]]
    ELSE [raised |-> TRUE, pairs |-> <<>>, face |-> 0]

\* make_filename
make_filename(card, qty, face_suffix) ==
    LET set_code   == IF Truthy(card.set) THEN Lower(card.set) ELSE <<>>
        cn         == IF Truthy(card.collector_number) THEN card.collector_number ELSE <<>>
        name       == sanitize_filename(IF card.name = None
                                        THEN <<"U","n","k","n","o","w","n">>
                                        ELSE card.name)
        qty_prefix == IF qty > 1 THEN IntToStr(qty) \o <<"x"," ">> ELSE <<>>
        set_part   == IF set_code # <<>> THEN <<" ","(">> \o set_code \o <<")">> ELSE <<>>
        num_part   == IF cn # <<>> THEN <<" ">> \o cn ELSE <<>>
    IN  qty_prefix \o name \o face_suffix \o set_part \o num_part

\* does r"\.(png|jpg|jpeg)(?:\?|$)" (IGNORECASE) match url at position i: the
\* length of the extension matched, or 0
ExtAt(url, i) ==
    LET t == Lower(From(url, i))
        ends(n) == Len(t) = n \/ t[n + 1] = "?"
    IN  IF StartsWith(t, <<".","p","n","g">>) /\ ends(4) THEN 3
        ELSE IF StartsWith(t, <<".","j","p","g">>) /\ ends(4) THEN 3
        ELSE IF StartsWith(t, <<".","j","p","e","g">>) /\ ends(5) THEN 4
        ELSE 0

\* infer_extension_from_url
infer_extension_from_url(url) ==
    LET hits == {i \in 1..Len(url) : ExtAt(url, i) > 0}
    IN  IF hits = {} THEN <<".","i","m","g">>
        ELSE LET i == CHOOSE h \in hits : \A g \in hits : h <= g
             IN  <<".">> \o Lower(SubSeq(url, i + 1, i + ExtAt(url, i)))

(***************************************************************************)
(* The lookup API and the image host (the environment of the program)      *)
(***************************************************************************)
BATCH_SIZE == 75

\* bounds of the checked inputs
MaxLines   == 2
MaxBatches == 2

Min(a, b) == IF a <= b THEN a ELSE b

BulkSet == <<"b","l","k">>

Bolt ==
    [name |-> <<"B","o","l","t">>, set |-> <<"l","e","a">>, collector_number |-> <<"1">>,
     image_uris |-> ("png" :> <<"b",".","p","n","g">>)
                    @@ ("normal" :> <<"b",".","j","p","g","?","1">>),
     card_faces |-> <<>>]

\* a single-faced card that has no png image
Zap ==
    [name |-> <<"Z","a","p">>, set |-> <<"l","e","a">>, collector_number |-> <<"9">>,
     image_uris |-> ("normal" :> <<"z",".","j","p","g">>),
     card_faces |-> <<>>]

\* a two-faced card whose second face has no png image
FireIce ==
    [name |-> <<"F","i","r","e"," ","/","/"," ","I","c","e">>,
     set |-> <<"a","p","c">>, collector_number |-> <<"2">>,
     image_uris |-> NoUris,
     card_faces |->
        << [name |-> <<"F","i","r","e">>,
            image_uris |-> ("png" :> <<"f",".","p","n","g">>)
                           @@ ("normal" :> <<"f",".","j","p","g">>)],
           [name |-> <<"I","c","e">>,
            image_uris |-> ("normal" :> <<"i",".","j","p","g">>)] >>]

\* the printing number cn of the bulk set
BulkCard(cn) ==
    [name |-> <<"B">>, set |-> BulkSet, collector_number |-> cn,
     image_uris |-> ("png" :> (<<"k">> \o cn \o <<".","p","n","g">>)),
     card_faces |-> <<>>]

MaxBulk == MaxBatches * BATCH_SIZE + 1

\* the printings the lookup API knows, besides those of the bulk set
Printings == {Bolt, Zap, FireIce}

\* the collector numbers of the bulk set
BulkNumbers == {IntToStr(i) : i \in 1..MaxBulk}

\* is the identifier that of a printing of the bulk set
IsBulk(id) ==
    /\ "collector_number" \in DOMAIN id
    /\ id.set = BulkSet
    /\ id.collector_number \in BulkNumbers

\* does the printing answer the identifier: by set and number, by name within a
\* set, or by name; names compare without case
Matches(p, id) ==
    IF "collector_number" \in DOMAIN id
    THEN p.set = id.set /\ p.collector_number = id.collector_number
    ELSE IF "set" \in DOMAIN id
    THEN Lower(p.name) = Lower(id.name) /\ p.set = id.set
    ELSE Lower(p.name) = Lower(id.name)

\* the decklist lines the inputs are drawn from
SampleLines ==
    { <<" "," ">>,
      <<"S","i","d","e","b","o","a","r","d">>,
      <<"4"," ","1","6","2">>,
      <<"2","x"," ","B","o","l","t"," ","(","L","E","A",")"," ","1"," ","*","F","*">>,
      <<"B","o","l","t"," ","(","l","e","a",")">>,
      <<"B","o","l","t","#","s","e","t",":","l","e","a">>,
      <<"F","i","r","e","/","/","I","c","e">>,
      <<"2"," ","Z","a","p">> }

BulkLine(i) == <<"2"," ","B"," ","(","b","l","k",")"," ">> \o IntToStr(i)

BulkDeck(n) == [i \in 1..n |-> BulkLine(i)]

BulkSizes == {k * BATCH_SIZE + d : k \in 1..MaxBatches, d \in {0, 1}}

SmallDecks == UNION {[1..n -> SampleLines] : n \in 0..MaxLines}

\* the image download that fails, and how: an HTTP error status
\* (raise_for_status, before the file is opened) or a broken stream (after it)
Faults ==
    { None,
      <<<<"b",".","p","n","g">>, "stream">>,
      <<<<"i",".","j","p","g">>, "http">> }

\* a file that may be in the output directory before the run
OldFile == [src |-> <<"o","l","d">>, complete |-> TRUE]
PreFiles == {<<>>, (<<"B","o","l","t"," ","(","l","e","a",")"," ","1",".","p","n","g">> :> OldFile)}

VARIABLES
    lines,          \* the lines read from the input
    unique,         \* args.unique
    overwrite,      \* args.overwrite
    size,           \* args.size
    unknown,        \* environment: identifiers the lookup API does not resolve
    fault,          \* environment: the image download that fails, if any
    pc,             \* position of main
    status,         \* exit status of the process; -1 while it runs
    parsed,         \* main: parsed
    aggregated,     \* main: aggregated
    identifiers,    \* main: identifiers
    start,          \* main: start of the next chunk (0-based)
    requests,       \* the lookup requests posted: payload and whether it succeeded
    resolved_cards, \* main: resolved_cards, pairs (card, qty)
    resolved_from,  \* per resolved card, the index of the identifier it answers
    missing,        \* main: missing
    dir,            \* the output directory: what ensure_dir did
    idx,            \* position of the download loop in resolved_cards (1-based)
    errors,         \* main: errors
    outcomes,       \* per iteration of the download loop: the card, whether it raised
    files,          \* the files of the output directory: name -> content
    files0,         \* the files of the output directory before the run
    fetches         \* the image downloads requested: url and destination

vars == <<lines, unique, overwrite, size, unknown, fault, pc, status, parsed,
          aggregated, identifiers, start, requests, resolved_cards,
          resolved_from, missing, dir, idx, errors, outcomes, files, files0,
          fetches>>

inputs == <<lines, unique, overwrite, size, unknown, fault, files0>>

Start ==
    /\ pc = "parse"
    /\ status = -1
    /\ parsed = <<>>
    /\ aggregated = <<>>
    /\ identifiers = <<>>
    /\ start = 0
    /\ requests = <<>>
    /\ resolved_cards = <<>>
    /\ resolved_from = <<>>
    /\ missing = <<>>
    /\ dir = "untouched"
    /\ idx = 1
    /\ errors = <<>>
    /\ outcomes = <<>>
    /\ files = files0
    /\ fetches = <<>>

\* a short decklist of any sample lines, in any environment
InitSmall ==
    /\ lines \in SmallDecks
    /\ unique \in BOOLEAN
    /\ overwrite \in BOOLEAN
    /\ size \in {"png", "normal"}
    /\ unknown = {}
    /\ fault \in Faults
    /\ files0 \in PreFiles
    /\ Start

\* a decklist of many distinct cards, around the multiples of the batch size
InitBulk ==
    /\ lines \in {BulkDeck(n) : n \in BulkSizes}
    /\ unique \in BOOLEAN
    /\ overwrite \in BOOLEAN
    /\ size = "png"
    /\ unknown \in SUBSET {[set |-> BulkSet, collector_number |-> <<"2">>]}
    /\ fault = None
    /\ files0 = <<>>
    /\ Start

Init == InitSmall \/ InitBulk

(***************************************************************************)
(* The response of the lookup API to one request                           *)
(***************************************************************************)
Known(id) ==
    /\ id \notin unknown
    /\ IsBulk(id) \/ \E p \in Printings : Matches(p, id)

CardOf(id) ==
    IF IsBulk(id) THEN BulkCard(id.collector_number)
    ELSE CHOOSE p \in Printings : Matches(p, id)

\* positions, within the payload, of the identifiers that resolve
FoundAt(batch_ids) ==
    SelectSeq([k \in DOMAIN batch_ids |-> k], LAMBDA k : Known(batch_ids[k]))

\* data: the cards of the identifiers that resolved, in identifier order;
\* not_found: the other identifiers
Response(batch_ids) ==
    LET at == FoundAt(batch_ids)
    IN  [data      |-> [j \in DOMAIN at |-> CardOf(batch_ids[at[j]])],
         not_found |-> SelectSeq(batch_ids, LAMBDA id : ~Known(id)),
         at        |-> at]

\* how the download of a URL ends
NetOutcome(url) == IF fault # None /\ fault[1] = url THEN fault[2] ELSE "ok"

(***************************************************************************)
(* main                                                                    *)
(***************************************************************************)
\* the parse loop: the entries of the lines that parse
ParseAll(ls) ==
    LET at == SelectSeq([k \in DOMAIN ls |-> k],
                        LAMBDA k : parse_deck_line(ls[k]) # NoEntry)
    IN  [j \in DOMAIN at |-> parse_deck_line(ls[at[j]])]

\* ParseInput, were the check for an empty input missing
ParseInput_NoEmptyCheck ==
    /\ pc = "parse"
    /\ parsed' = ParseAll(lines)
    /\ pc' = "aggregate"
    /\ UNCHANGED <<inputs, status, aggregated, identifiers, start, requests,
                   resolved_cards, resolved_from, missing, dir, idx, errors,
                   outcomes, files, fetches>>

\* main, parse loop and the check for an empty input
ParseInput ==
    /\ pc = "parse"
    /\ parsed' = ParseAll(lines)
    /\ IF parsed' = <<>>
       THEN pc' = "exit" /\ status' = 1
       ELSE pc' = "aggregate" /\ status' = status
    /\ UNCHANGED <<inputs, aggregated, identifiers, start, requests,
                   resolved_cards, resolved_from, missing, dir, idx, errors,
                   outcomes, files, fetches>>

\* main, grouping, aggregation and the identifiers
AggregateEntries ==
    /\ pc = "aggregate"
    /\ aggregated' = Aggregate(parsed, unique)
    /\ identifiers' = build_identifiers(aggregated')
    /\ pc' = "resolve"
    /\ UNCHANGED <<inputs, status, parsed, start, requests, resolved_cards,
                   resolved_from, missing, dir, idx, errors, outcomes, files,
                   fetches>>

\* Chunk, were the end of the slice inclusive
Chunk_InclusiveEnd(list, from) ==
    SubSeq(list, from + 1, Min(from + BATCH_SIZE + 1, Len(list)))

\* identifiers[start:start+BATCH_SIZE], and the same slice of any list
Chunk(list, from) == SubSeq(list, from + 1, Min(from + BATCH_SIZE, Len(list)))

\* zip(returned, aggregated[start:start+BATCH_SIZE]): the pairs (card, qty)
ZipChunk(returned, entries) ==
    [j \in 1..Min(Len(returned), Len(entries)) |->
        [card |-> returned[j], qty |-> entries[j].qty]]

\* one iteration of the resolve loop whose request succeeds
LookupChunk ==
    /\ pc = "resolve"
    /\ start < Len(identifiers)
    /\ LET batch_ids == Chunk(identifiers, start)
           resp      == Response(batch_ids)
           pairs     == ZipChunk(resp.data, Chunk(aggregated, start))
       IN  /\ requests' = Append(requests, [payload |-> batch_ids, ok |-> TRUE])
           /\ missing' = missing \o resp.not_found
           /\ resolved_cards' = resolved_cards \o pairs
           /\ resolved_from' =
                 resolved_from \o [j \in DOMAIN pairs |-> start + resp.at[j]]
    /\ start' = start + BATCH_SIZE
    /\ UNCHANGED <<inputs, pc, status, parsed, aggregated, identifiers, dir,
                   idx, errors, outcomes, files, fetches>>

\* LookupFails, were the error caught and the loop continued
LookupFails_Swallowed ==
    /\ pc = "resolve"
    /\ start < Len(identifiers)
    /\ requests' = Append(requests,
                          [payload |-> Chunk(identifiers, start), ok |-> FALSE])
    /\ start' = start + BATCH_SIZE
    /\ UNCHANGED <<inputs, pc, status, parsed, aggregated, identifiers,
                   resolved_cards, resolved_from, missing, dir, idx, errors,
                   outcomes, files, fetches>>

\* one iteration of the resolve loop whose request fails: the network error
\* of session.post or the HTTPError of raise_for_status is not caught
LookupFails ==
    /\ pc = "resolve"
    /\ start < Len(identifiers)
    /\ requests' = Append(requests,
                          [payload |-> Chunk(identifiers, start), ok |-> FALSE])
    /\ pc' = "exit"
    /\ status' = 1
    /\ UNCHANGED <<inputs, parsed, aggregated, identifiers, start,
                   resolved_cards, resolved_from, missing, dir, idx, errors,
                   outcomes, files, fetches>>

\* ensure_dir(out_dir) after the resolve loop
EnsureDir ==
    /\ pc = "resolve"
    /\ start >= Len(identifiers)
    /\ dir' = "ensured"
    /\ pc' = "download"
    /\ UNCHANGED <<inputs, status, parsed, aggregated, identifiers, start,
                   requests, resolved_cards, resolved_from, missing, idx,
                   errors, outcomes, files, fetches>>

\* ensure_dir(out_dir) when os.makedirs raises: the OSError is not caught
EnsureDirFails ==
    /\ pc = "resolve"
    /\ start >= Len(identifiers)
    /\ files0 = <<>>
    /\ dir' = "failed"
    /\ pc' = "exit"
    /\ status' = 1
    /\ UNCHANGED <<inputs, parsed, aggregated, identifiers, start, requests,
                   resolved_cards, resolved_from, missing, idx, errors,
                   outcomes, files, fetches>>

\* download_file, were the check for an existing destination missing
download_file_NoExistsCheck(fs, url, dest, ow) ==
    LET req == <<[url |-> url, dest |-> dest]>>
    IN  CASE NetOutcome(url) = "http" ->
               [files |-> fs, fetched |-> req, raised |-> TRUE]
          [] NetOutcome(url) = "stream" ->
               [files |-> (dest :> [src |-> url, complete |-> FALSE]) @@ fs,
                fetched |-> req, raised |-> TRUE]
          [] OTHER ->
               [files |-> (dest :> [src |-> url, complete |-> TRUE]) @@ fs,
                fetched |-> req, raised |-> FALSE]

\* download_file: the files after it, the download it requested, whether it raised
download_file(fs, url, dest, ow) ==
    IF ~ow /\ dest \in DOMAIN fs
    THEN [files |-> fs, fetched |-> <<>>, raised |-> FALSE]
    ELSE LET req == <<[url |-> url, dest |-> dest]>>
         IN  CASE NetOutcome(url) = "http" ->
                    [files |-> fs, fetched |-> req, raised |-> TRUE]
               [] NetOutcome(url) = "stream" ->
                    [files |-> (dest :> [src |-> url, complete |-> FALSE]) @@ fs,
                     fetched |-> req, raised |-> TRUE]
               [] OTHER ->
                    [files |-> (dest :> [src |-> url, complete |-> TRUE]) @@ fs,
                     fetched |-> req, raised |-> FALSE]

\* the loop over the pairs of one card, until a download raises
RECURSIVE DownloadPairs(_, _, _, _, _, _)
DownloadPairs(card, qty, pairs, fs, log, ow) ==
    IF pairs = <<>> THEN [files |-> fs, fetched |-> log, raised |-> FALSE]
    ELSE LET base == make_filename(card, qty, pairs[1].suffix)
             ext  == infer_extension_from_url(pairs[1].url)
             d    == download_file(fs, pairs[1].url, base \o ext, ow)
         IN  IF d.raised
             THEN [files |-> d.files, fetched |-> log \o d.fetched, raised |-> TRUE]
             ELSE DownloadPairs(card, qty, Tail(pairs), d.files,
                                log \o d.fetched, ow)

\* the try body of the download loop for one card
TryCard(card, qty, fs, sz, ow) ==
    LET picked == pick_image_uris(card, sz)
    IN  IF picked.raised
        THEN [files |-> fs, fetched |-> <<>>, raised |-> TRUE]
        ELSE DownloadPairs(card, qty, picked.pairs, fs, <<>>, ow)

\* DownloadCard, were the exception of the try body not caught
DownloadCard_NoExcept ==
    /\ pc = "download"
    /\ idx <= Len(resolved_cards)
    /\ LET card == resolved_cards[idx].card
           r    == TryCard(card, resolved_cards[idx].qty, files, size, overwrite)
       IN  /\ files' = r.files
           /\ fetches' = fetches \o r.fetched
           /\ outcomes' = Append(outcomes, [at |-> idx, raised |-> r.raised])
           /\ IF r.raised
              THEN pc' = "exit" /\ status' = 1 /\ idx' = idx
              ELSE pc' = pc /\ status' = status /\ idx' = idx + 1
    /\ UNCHANGED <<inputs, parsed, aggregated, identifiers, start, requests,
                   resolved_cards, resolved_from, missing, dir, errors>>

\* one iteration of the download loop: try, except, finally
DownloadCard ==
    /\ pc = "download"
    /\ idx <= Len(resolved_cards)
    /\ LET card == resolved_cards[idx].card
           r    == TryCard(card, resolved_cards[idx].qty, files, size, overwrite)
       IN  /\ files' = r.files
           /\ fetches' = fetches \o r.fetched
           /\ outcomes' = Append(outcomes, [at |-> idx, raised |-> r.raised])
           /\ errors' = IF r.raised THEN Append(errors, card.name) ELSE errors
    /\ idx' = idx + 1
    /\ UNCHANGED <<inputs, pc, status, parsed, aggregated, identifiers, start,
                   requests, resolved_cards, resolved_from, missing, dir>>

\* Report, were a run with missing or failed cards to exit with status 1
Report_FailsOnErrors ==
    /\ pc = "download"
    /\ idx > Len(resolved_cards)
    /\ pc' = "done"
    /\ status' = IF missing # <<>> \/ errors # <<>> THEN 1 ELSE 0
    /\ UNCHANGED <<inputs, parsed, aggregated, identifiers, start, requests,
                   resolved_cards, resolved_from, missing, dir, idx, errors,
                   outcomes, files, fetches>>

\* the final report; main returns and the process exits with status 0
Report ==
    /\ pc = "download"
    /\ idx > Len(resolved_cards)
    /\ pc' = "done"
    /\ status' = 0
    /\ UNCHANGED <<inputs, parsed, aggregated, identifiers, start, requests,
                   resolved_cards, resolved_from, missing, dir, idx, errors,
                   outcomes, files, fetches>>

Next ==
    \/ ParseInput
    \/ AggregateEntries
    \/ LookupChunk
    \/ LookupFails
    \/ EnsureDir
    \/ EnsureDirFails
    \/ DownloadCard
    \/ Report

Spec == Init /\ [][Next]_vars

(***************************************************************************)
(* Properties                                                              *)
(***************************************************************************)
Last(s) == s[Len(s)]

\* the lookup that failed, if one did
LookupFailed == requests # <<>> /\ ~Last(requests).ok

\* the resolve loop has run to its end
Resolved == pc \in {"download", "done"} \/ dir = "failed"

\* C1: every resolved card carries the quantity of the aggregated entry of the
\* identifier it answers, and an identifier that is not found is reported
\* missing and resolved by no card, while the others of its chunk are resolved.
C1_PairedWithOwnEntry ==
    /\ \A k \in DOMAIN resolved_cards :
          resolved_cards[k].qty = aggregated[resolved_from[k]].qty
    /\ \A i \in 1..Min(start, Len(identifiers)) :
          IF Known(identifiers[i])
          THEN \E k \in DOMAIN resolved_from : resolved_from[k] = i
          ELSE /\ identifiers[i] \in Range(missing)
               /\ \A k \in DOMAIN resolved_from : resolved_from[k] # i

\* C2: the download loop attempts every resolved card once, in list order;
\* a card that fails adds exactly one error, that of the card, and the loop
\* goes on: a run that aborts did so before the loop started, and the final
\* summary is reached with every card attempted.
C2_EveryCardAttempted ==
    /\ \A k \in DOMAIN outcomes : outcomes[k].at = k
    /\ Len(outcomes) = idx - 1
    /\ idx - 1 <= Len(resolved_cards)
    /\ Len(errors) = Cardinality({k \in DOMAIN outcomes : outcomes[k].raised})
    /\ \A k \in DOMAIN outcomes :
          outcomes[k].raised =>
             errors[Cardinality({j \in 1..k : outcomes[j].raised})]
                = resolved_cards[k].card.name
    /\ pc = "download" => status = -1
    /\ pc = "done" => status = 0 /\ Len(outcomes) = Len(resolved_cards)
    /\ pc = "exit" => outcomes = <<>> /\ errors = <<>>

C2_Witness ==
    /\ pc = "done"
    /\ Len(outcomes) >= 2
    /\ outcomes[1].raised
    /\ ~outcomes[2].raised

\* C3: a lookup request that fails ends the run with status 1: it is the last
\* request, the output directory is not created, nothing is downloaded and no
\* file is written, whatever the earlier chunks resolved.
C3_LookupFailureFatal ==
    /\ \A k \in 1..(Len(requests) - 1) : requests[k].ok
    /\ LookupFailed =>
          /\ pc = "exit"
          /\ status = 1
          /\ dir = "untouched"
          /\ fetches = <<>>
          /\ outcomes = <<>>
          /\ files = files0

C3_Witness ==
    /\ LookupFailed
    /\ Len(requests) >= 2
    /\ resolved_cards # <<>>

\* C4 as stated: the exit status is 1 when no card was parsed and 0 otherwise.
C4_StatusOnlyEmptyInput ==
    status # -1 => (status = 1 <=> parsed = <<>>) /\ status \in {0, 1}

\* C4 as amended: the exit status is 1 when no card was parsed, when a lookup
\* request failed or when the output directory could not be created, and 0
\* otherwise, also with cards not found or not downloaded.
C4_StatusOnlyFatal ==
    status # -1 =>
        /\ status \in {0, 1}
        /\ status = 1 <=> (parsed = <<>> \/ LookupFailed \/ dir = "failed")

C4_Witness ==
    /\ status = 0
    /\ missing # <<>>
    /\ errors # <<>>

NoLineParses == \A i \in DOMAIN lines : parse_deck_line(lines[i]) = NoEntry

\* C5: when no line parses to a card, the run ends with status 1 right after
\* parsing: no lookup is requested, nothing is downloaded, the output directory
\* is not created.
C5_EmptyInputBeforeNetwork ==
    (pc # "parse" /\ NoLineParses) =>
        /\ pc = "exit"
        /\ status = 1
        /\ requests = <<>>
        /\ fetches = <<>>
        /\ dir = "untouched"
        /\ files = files0

C5_Witness ==
    /\ pc = "exit"
    /\ Len(lines) >= 2
    /\ NoLineParses

\* the IdentityKey of an entry: (set, number), else (name, set), else (name)
IdentityKey(e) ==
    IF Truthy(e.set) /\ Truthy(e.collector_number)
    THEN <<"set+number", e.set, e.collector_number>>
    ELSE IF Truthy(e.set)
    THEN <<"name+set", Lower(e.name), e.set>>
    ELSE <<"name", Lower(e.name)>>

\* the distinct IdentityKeys of the entries, in first-seen order
IdentityKeys(entries) ==
    LET keys  == [i \in DOMAIN entries |-> IdentityKey(entries[i])]
        first == SelectSeq([i \in DOMAIN entries |-> i],
                           LAMBDA i : \A j \in 1..(i - 1) : keys[j] # keys[i])
    IN  [g \in DOMAIN first |-> keys[first[g]]]

\* one entry per IdentityKey, in first-seen order, from the first of its group
ByIdentityKey(entries, unique_mode) ==
    LET keys == IdentityKeys(entries)
    IN  [g \in DOMAIN keys |->
            LET items == SelectSeq(entries, LAMBDA e : IdentityKey(e) = keys[g])
            IN  [items[1] EXCEPT
                    !.qty = IF unique_mode THEN 1 ELSE SumQty(items)]]

\* C6: the aggregated entries are one per distinct IdentityKey of the parsed
\* entries, in first-seen order, each the first of its group with the sum of
\* the group's quantities, or 1 in unique mode.
C6_OnePerIdentityKey ==
    pc \notin {"parse", "aggregate"} =>
        aggregated = ByIdentityKey(parsed, unique)

\* the IdentityKeys of aggregated entries, each with its quantity
KeyQuantities(agg) == {<<IdentityKey(agg[i]), agg[i].qty>> : i \in DOMAIN agg}

Permuted(s, f) == [i \in DOMAIN s |-> s[f[i]]]

\* C7: aggregating any permutation of the parsed entries gives the same
\* IdentityKeys with the same quantities.
C7_OrderIndependent ==
    (pc \notin {"parse", "aggregate"} /\ Len(parsed) <= MaxLines + 1) =>
        \A f \in Permutations(DOMAIN parsed) :
            KeyQuantities(Aggregate(Permuted(parsed, f), unique))
                = KeyQuantities(aggregated)

RECURSIVE Payloads(_)
Payloads(reqs) ==
    IF reqs = <<>> THEN <<>> ELSE reqs[1].payload \o Payloads(Tail(reqs))

\* C8: request k carries identifiers 75(k-1)+1 .. 75k (the last one what is
\* left), a request is posted only when all before it were answered, and when
\* the resolve loop is over the payloads together are the identifiers, in
\* ceil(n / 75) requests.
C8_ChunksOfBatchSize ==
    /\ \A k \in DOMAIN requests :
          /\ requests[k].payload =
                SubSeq(identifiers, BATCH_SIZE * (k - 1) + 1,
                       Min(BATCH_SIZE * k, Len(identifiers)))
          /\ Len(requests[k].payload) \in 1..BATCH_SIZE
          /\ k < Len(requests) => Len(requests[k].payload) = BATCH_SIZE
    /\ start = BATCH_SIZE * Cardinality({k \in DOMAIN requests : requests[k].ok})
    /\ Resolved =>
          /\ Payloads(requests) = identifiers
          /\ Len(requests) = (Len(identifiers) + BATCH_SIZE - 1) \div BATCH_SIZE

C8_Witness ==
    /\ pc = "done"
    /\ Len(requests) = 3
    /\ Len(requests[3].payload) = 1

\* a card with faces, one of which has no image of the requested size
FaceLacksSize(card) ==
    /\ card.image_uris = NoUris
    /\ \E i \in DOMAIN card.card_faces :
          ~HasSize(card.card_faces[i].image_uris, size)

\* C9: the iteration of the download loop on a card with a face that lacks the
\* requested size writes no file and requests no download, records one error
\* for the card, and leaves the loop at the next card.
C9_FaceLacksSizeAbandonsCard ==
    [][ (pc = "download" /\ idx <= Len(resolved_cards)
            /\ FaceLacksSize(resolved_cards[idx].card))
        => /\ files' = files
           /\ fetches' = fetches
           /\ errors' = Append(errors, resolved_cards[idx].card.name)
           /\ idx' = idx + 1
           /\ pc' = "download" ]_vars

C9_Witness ==
    \E k \in DOMAIN outcomes :
        /\ FaceLacksSize(resolved_cards[k].card)
        /\ HasSize(resolved_cards[k].card.card_faces[1].image_uris, size)
        /\ outcomes[k].raised
        /\ k + 1 \in DOMAIN outcomes
        /\ ~outcomes[k + 1].raised

\* the downloads requested by the step
NewFetches == SubSeq(fetches', Len(fetches) + 1, Len(fetches'))

\* C10: without overwrite, no step changes a file that exists and no download
\* is requested for a destination that exists, at the start of the step or by
\* an earlier download of the step; with overwrite, every download invoked is
\* requested, and one that succeeds leaves the fetched content in the file.
C10_ExistingFileUntouched ==
    [][ /\ ~overwrite =>
            /\ \A f \in DOMAIN files :
                  f \in DOMAIN files' /\ files'[f] = files[f]
            /\ \A k \in DOMAIN NewFetches :
                  /\ NewFetches[k].dest \notin DOMAIN files
                  /\ \A j \in 1..(k - 1) : NewFetches[j].dest # NewFetches[k].dest
        /\ (overwrite /\ pc = "download" /\ idx <= Len(resolved_cards)) =>
            LET picked == pick_image_uris(resolved_cards[idx].card, size)
            IN  /\ Len(NewFetches) <= Len(picked.pairs)
                /\ \A k \in DOMAIN NewFetches :
                      /\ NewFetches[k].url = picked.pairs[k].url
                      /\ k < Len(NewFetches) => NetOutcome(NewFetches[k].url) = "ok"
                /\ Len(NewFetches) < Len(picked.pairs) =>
                      /\ NewFetches # <<>>
                      /\ NetOutcome(Last(NewFetches).url) # "ok"
                /\ \A k \in DOMAIN NewFetches :
                      (NetOutcome(NewFetches[k].url) = "ok"
                         /\ \A j \in (k + 1)..Len(NewFetches) :
                               NewFetches[j].dest # NewFetches[k].dest)
                      => files'[NewFetches[k].dest] =
                            [src |-> NewFetches[k].url, complete |-> TRUE]
      ]_vars

\* two cards of one run gave the same file name: the second was not fetched
C10_Witness ==
    /\ ~overwrite
    /\ files0 = <<>>
    /\ Len(outcomes) = 2
    /\ errors = <<>>
    /\ Len(fetches) = 1

====
